---- MODULE Spec2Model ----
(***************************************************************************)
(* Pursuit-evasion around one circular obstacle (lib/utility.py,           *)
(* lib/evader.py, lib/pursuer.py, lib/gameboard.py,                        *)
(* lib/tempCodeRunnerFile.py, lib/obstacle.py).                            *)
(*                                                                         *)
(* Numbers.  The program computes in float64.  Here a length or coordinate *)
(* is an integer count of 1/Scale distance units (fixed point), a product  *)
(* of two lengths (the grid's time difference) a count of 1/Scale^2, and   *)
(* the float NaN, which the program produces by 0/0 when it normalises a   *)
(* zero vector, is the value NaN.  sqrt, arccos, cos and sin are computed  *)
(* by integer algorithms and rounded to the fixed-point grid; trigonometric*)
(* compositions of the source (polar angle -> cos/sin) are evaluated by    *)
(* their closed algebraic form.                                            *)
(***************************************************************************)
EXTENDS Integers, Sequences, FiniteSets, TLC

\* dtype=float positions: one distance unit is Scale fixed-point steps.
Scale == 100

\* The float NaN (np.float64 0/0), as a coordinate or a length.
NaN == -999999

NaNPoint == <<NaN, NaN>>

IsNaNPoint(p) == p[1] = NaN \/ p[2] = NaN

Abs(x) == IF x < 0 THEN -x ELSE x

Sgn(x) == IF x < 0 THEN -1 ELSE IF x > 0 THEN 1 ELSE 0

Min(a, b) == IF a <= b THEN a ELSE b

\* n / d rounded to the nearest integer (d > 0), as a float quotient rounded
\* to the fixed-point grid.
RoundDiv(n, d) == (n + (d \div 2)) \div d

\* floor(sqrt(n)) by bisection on [lo, hi]; hi stays below 46341 so that
\* mid*mid fits a 32-bit integer.
RECURSIVE SqrtSearch(_, _, _)
SqrtSearch(n, lo, hi) ==
    IF lo >= hi THEN lo
    ELSE LET mid == (lo + hi + 1) \div 2
         IN  IF mid * mid <= n THEN SqrtSearch(n, mid, hi)
             ELSE SqrtSearch(n, lo, mid - 1)

ISqrt(n) == SqrtSearch(n, 0, Min(n, 46340))

\* sqrt(n) rounded to the nearest integer.
RSqrt(n) ==
    LET round(s) == IF n - s * s > s THEN s + 1 ELSE s
    IN  round(ISqrt(n))

\* <<floor(a*b/c), (a*b) mod c>> for a, b >= 0, c > 0, by binary long
\* multiplication, so that no intermediate exceeds 2*c + b.
RECURSIVE MulDivRem(_, _, _)
MulDivRem(a, b, c) ==
    LET add(h, odd) ==
            <<2 * h[1] + odd * (b \div c) + ((2 * h[2] + odd * (b % c)) \div c),
              (2 * h[2] + odd * (b % c)) % c>>
    IN  IF a = 0 THEN <<0, 0>>
        ELSE add(MulDivRem(a \div 2, b, c), a % 2)

\* a*b/c rounded to the nearest integer, any signs of a and b, c > 0.
MulDiv(a, b, c) ==
    LET round(qr) == IF 2 * qr[2] >= c THEN qr[1] + 1 ELSE qr[1]
    IN  Sgn(a) * Sgn(b) * round(MulDivRem(Abs(a), Abs(b), c))

\* np.linalg.norm / np.hypot of (dx, dy), to a tenth of a fixed-point step.
Norm10(dx, dy) == ISqrt((dx * dx + dy * dy) * 100)

\* np.linalg.norm / np.hypot of (dx, dy) rounded to the fixed-point grid.
Norm(dx, dy) == RSqrt(dx * dx + dy * dy)

\* np.linalg.norm(b - a); NaN when either point is NaN.
Dist(a, b) ==
    IF IsNaNPoint(a) \/ IsNaNPoint(b) THEN NaN
    ELSE Norm(b[1] - a[1], b[2] - a[2])

\* b - a for points; NaN when either is NaN.
Diff(b, a) ==
    IF IsNaNPoint(a) \/ IsNaNPoint(b) THEN NaNPoint
    ELSE <<b[1] - a[1], b[2] - a[2]>>

\* position + speed * direction / np.linalg.norm(direction): the unit step of
\* evader.py:78-79, evader.py:109-112 and pursuer.py:60-62, 70-72.  A zero direction
\* divides 0 by 0 and gives NaN in both coordinates.
UnitStep(pos, dir, speed) ==
    LET step(n10) ==
            IF n10 = 0 THEN NaNPoint
            ELSE <<pos[1] + MulDiv(speed * 10, dir[1], n10),
                   pos[2] + MulDiv(speed * 10, dir[2], n10)>>
    IN  IF IsNaNPoint(pos) \/ IsNaNPoint(dir) THEN NaNPoint
        ELSE step(Norm10(dir[1], dir[2]))

\* extension_length default of compute_tangents_circle, in fixed-point steps.
ExtensionLength == 1000 * Scale

\* The extended tangent line (utility.py:59-67) from point through tangent
\* point t.
TangentLine(point, t) ==
    <<point, UnitStep(point, Diff(t, point), ExtensionLength)>>

\* The return value of compute_tangents_circle for tangent points t0, t1.
Tangents(point, t0, t1) ==
    [raised |-> FALSE,
     points |-> <<t0, t1>>,
     lines  |-> <<TangentLine(point, t0), TangentLine(point, t1)>>]

\* compute_tangents_circle(circle_center, circle_radius, point).
\* raised: the ValueError of a point inside or on the circle (the comparison
\* hypot <= radius is decided on the squares).  Otherwise, with
\* d = |point - center| and h = sqrt(d^2 - r^2), cos(arccos(r/d)) = r/d and
\* sin(arccos(r/d)) = h/d, so the points at the angles
\* atan2(diff_y, diff_x) -/+ arccos(r/d) are
\*   center + r * (dx*r + dy*h, dy*r - dx*h) / d^2   (angles[0])
\*   center + r * (dx*r - dy*h, dy*r + dx*h) / d^2   (angles[1]).
\* A NaN point passes the comparison (NaN <= r is False) and gives NaN.
compute_tangents_circle(center, radius, point) ==
    LET at(dx, dy, d2, h10) ==
            Tangents(point,
                <<center[1] + MulDiv(radius, dx * radius * 10 + dy * h10, 10 * d2),
                  center[2] + MulDiv(radius, dy * radius * 10 - dx * h10, 10 * d2)>>,
                <<center[1] + MulDiv(radius, dx * radius * 10 - dy * h10, 10 * d2),
                  center[2] + MulDiv(radius, dy * radius * 10 + dx * h10, 10 * d2)>>)
        from(dx, dy, d2) ==
            IF d2 <= radius * radius
            THEN [raised |-> TRUE, points |-> <<>>, lines |-> <<>>]
            ELSE at(dx, dy, d2, ISqrt((d2 - radius * radius) * 100))
        diff(dx, dy) == from(dx, dy, dx * dx + dy * dy)
    IN  IF IsNaNPoint(point)
        THEN [raised |-> FALSE,
              points |-> <<NaNPoint, NaNPoint>>,
              lines  |-> << <<point, NaNPoint>>, <<point, NaNPoint>> >>]
        ELSE diff(point[1] - center[1], point[2] - center[2])

\* Whether p is strictly inside the circle: hypot(p - center) < radius,
\* decided on the squares.
StrictlyInside(p, center, radius) ==
    (p[1] - center[1]) * (p[1] - center[1])
    + (p[2] - center[2]) * (p[2] - center[2]) < radius * radius

\* Whether p is inside or on the circle: hypot(p - center) <= radius, decided
\* on the squares.
InsideOrOn(p, center, radius) ==
    (p[1] - center[1]) * (p[1] - center[1])
    + (p[2] - center[2]) * (p[2] - center[2]) <= radius * radius

\* does_line_intersect_circle(point1, point2, circle_center, circle_radius).
\* distance = |a*cx + b*cy + c| / sqrt(a^2 + b^2) is kept to a tenth of a
\* fixed-point step.  With 0 <= param <= 1 the closest point is the foot of
\* the perpendicular, whose distance to the centre is that same distance;
\* with param outside [0, 1] it is an end point, compared on the squares.
\* A NaN end point, or point1 = point2 (distance = 0/0 = NaN), fails every
\* comparison and the function returns False.
does_line_intersect_circle(point1, point2, center, radius) ==
    LET closest(distance10, dot, len_sq) ==
            IF distance10 > radius * 10 THEN FALSE
            ELSE IF dot < 0 THEN StrictlyInside(point1, center, radius)
            ELSE IF dot > len_sq THEN StrictlyInside(point2, center, radius)
            ELSE distance10 < radius * 10
        line(diff_x, diff_y, len_sq) ==
            closest(MulDiv(Abs(diff_y * center[1] - diff_x * center[2]
                               + (diff_x * point1[2] - diff_y * point1[1])),
                           100, ISqrt(len_sq * 100)),
                    (center[1] - point1[1]) * diff_x
                    + (center[2] - point1[2]) * diff_y,
                    len_sq)
        diff(diff_x, diff_y) == line(diff_x, diff_y, diff_x * diff_x + diff_y * diff_y)
    IN  IF IsNaNPoint(point1) \/ IsNaNPoint(point2) \/ point1 = point2 THEN FALSE
        ELSE diff(point2[1] - point1[1], point2[2] - point1[2])

\* np.arccos(x) for x = x4/10000 in [0, 1], as an angle in 1/10000 rad:
\* sqrt(1-x) * (1.5707288 - 0.2121144 x + 0.0742610 x^2 - 0.0187293 x^3).
ArcCosPos4(x) ==
    RoundDiv(ISqrt((10000 - x) * 10000)
             * (15707 + RoundDiv(x * (-2121 + RoundDiv(x * (743 + RoundDiv(x * (-187), 10000)), 10000)), 10000)),
             10000)

\* np.arccos on [-1, 1]: pi - arccos(-x) below 0.
ArcCos4(x4) == IF x4 >= 0 THEN ArcCosPos4(x4) ELSE 31416 - ArcCosPos4(-x4)

\* np.clip(x, -1.0, 1.0) in 1/10000.
Clip4(q) == IF q < -10000 THEN -10000 ELSE IF q > 10000 THEN 10000 ELSE q

\* arc_length(center, radius, point1, point2):
\* radius * min(angle, 2*pi - angle), angle = arccos(clip(v1.v2 / r^2)).
arc_length(center, radius, point1, point2) ==
    LET arc(angle) == RoundDiv(radius * Min(angle, 62832 - angle), 10000)
    IN  arc(ArcCos4(Clip4(MulDiv(
            (point1[1] - center[1]) * (point2[1] - center[1])
            + (point1[2] - center[2]) * (point2[2] - center[2]),
            10000, radius * radius))))

\* An entry of `paths` without its arc: the two tangent segments only.
PathVia_without_arc(center, radius, point1, point2, ta, tb) ==
    [raised |-> FALSE,
     length |-> Dist(ta, point1) + Dist(tb, point2),
     path |-> <<point1, ta, tb, point2>>]

\* One entry of `paths` (utility.py:160-169): the path through tangent point
\* ta of point1 and tb of point2.
PathVia(center, radius, point1, point2, ta, tb) ==
    [raised |-> FALSE,
     length |-> Dist(ta, point1) + Dist(tb, point2)
                + arc_length(center, radius, ta, tb),
     path |-> <<point1, ta, tb, point2>>]

\* min(paths, key=...): the first path of least length.
RECURSIVE FirstMin(_, _, _)
FirstMin(paths, i, best) ==
    IF i > Len(paths) THEN paths[best]
    ELSE FirstMin(paths, i + 1,
                  IF paths[i].length < paths[best].length THEN i ELSE best)

\* shortest_path_with_circle(circle_center, circle_radius, point1, point2).
\* raised: the ValueError of compute_tangents_circle, reached only when the
\* segment intersects the circle.
shortest_path_with_circle(center, radius, point1, point2) ==
    LET around(t1, t2) ==
            FirstMin(<<PathVia(center, radius, point1, point2, t1[1], t2[1]),
                       PathVia(center, radius, point1, point2, t1[2], t2[2]),
                       PathVia(center, radius, point1, point2, t1[1], t2[2]),
                       PathVia(center, radius, point1, point2, t1[2], t2[1])>>,
                     2, 1)
        blocked(tangents1, tangents2) ==
            IF tangents1.raised \/ tangents2.raised
            THEN [raised |-> TRUE, length |-> 0, path |-> <<>>]
            ELSE around(tangents1.points, tangents2.points)
    IN  IF ~does_line_intersect_circle(point1, point2, center, radius)
        THEN [raised |-> FALSE, length |-> Dist(point1, point2),
              path |-> <<point1, point2>>]
        ELSE blocked(compute_tangents_circle(center, radius, point1),
                     compute_tangents_circle(center, radius, point2))

(***************************************************************************)
(* State.                                                                  *)
(*   obstacle   the Obstacle shared by the agents and the board            *)
(*   evader     Evader: position, speed, board_size, trajectory            *)
(*   pursuer    Pursuer: the same and tangent_points, tangent_lines        *)
(*   gameboard  GameBoard: which file's class it is and its board_size;    *)
(*              exists = FALSE when the agents run without a board         *)
(*   grid       GameBoard.grid: sample point -> <<pursuer distance,        *)
(*              evader distance, time difference>>                         *)
(*   isocrones  GameBoard.isocrones, a list of sample points               *)
(*   last       the call that produced this state: its name, whether it    *)
(*              raised, and the branch it took                             *)
(*   builds     how many compute_isocrones calls the board has had since   *)
(*              its construction                                           *)
(***************************************************************************)
VARIABLES obstacle, evader, pursuer, gameboard, grid, isocrones, last, builds

vars == <<obstacle, evader, pursuer, gameboard, grid, isocrones, last, builds>>

\* Most steps one agent takes when there is no board.
MaxSteps == 3

\* Most steps one agent takes when there is a board.
MaxBoardSteps == 1

\* Most compute_isocrones calls made on one board after its construction.
MaxBuilds == 1

\* The values an Obstacle is constructed with are kept as given
\* (obstacle.py:21-24), each with its Python type: a number in fixed-point
\* steps, or a string.
Number(x) == [type |-> "number", value |-> x]

Str(x) == [type |-> "str", value |-> x]

IsNumber(v) == v.type = "number"

\* np.all(np.abs(new_position) <= self.board_size); False for NaN.
WithinBoard(p, board_size) ==
    /\ ~IsNaNPoint(p)
    /\ Abs(p[1]) <= board_size
    /\ Abs(p[2]) <= board_size

\* The evader's landing with the append moved inside the board test: a
\* rejected step records nothing.
EvaderLandsOnlyWhenMoved(ev, new_position) ==
    IF WithinBoard(new_position, ev.board_size)
    THEN [raised |-> FALSE,
          ev |-> [ev EXCEPT !.position = new_position,
                            !.trajectory = Append(@, new_position)]]
    ELSE [raised |-> FALSE, ev |-> ev]

\* The end of both evader steps (evader.py:81-85, 114-118): new_position is
\* taken only inside the board, and the position, moved or not, is appended.
EvaderLands(ev, new_position) ==
    LET at(position) ==
            [raised |-> FALSE,
             ev |-> [ev EXCEPT !.position = position,
                               !.trajectory = Append(@, position)]]
    IN  at(IF WithinBoard(new_position, ev.board_size)
           THEN new_position ELSE ev.position)

\* Evader.move_opposite_direction(pursuer_position).
move_opposite_direction(ev, pursuer_position) ==
    EvaderLands(ev, UnitStep(ev.position, Diff(ev.position, pursuer_position),
                             ev.speed))

\* The tangent point chosen with argmin in place of argmax: the nearer one.
nearer_tangent(tangent_points, pursuer_position) ==
    IF Dist(tangent_points[2], pursuer_position)
       < Dist(tangent_points[1], pursuer_position)
    THEN tangent_points[2] ELSE tangent_points[1]

\* tangent_points[np.argmax(distances)]: the first of the largest; a NaN
\* distance counts as largest.
further_tangent(tangent_points, pursuer_position) ==
    LET pick(d1, d2) ==
            IF d1 # NaN /\ d2 # NaN /\ d2 > d1
            THEN tangent_points[2] ELSE tangent_points[1]
    IN  pick(Dist(tangent_points[1], pursuer_position),
             Dist(tangent_points[2], pursuer_position))

\* Evader.move_along_tangent(pursuer_position); obs is self.obstacle.  With
\* a radius that is not a number, `distance <= circle_radius`
\* (utility.py:39) raises TypeError before anything is written.
move_along_tangent(ev, pursuer_position, obs) ==
    LET along(tangents) ==
            IF tangents.raised THEN [raised |-> TRUE, ev |-> ev]
            ELSE EvaderLands(ev,
                     UnitStep(ev.position,
                              Diff(further_tangent(tangents.points, pursuer_position),
                                   ev.position),
                              ev.speed))
    IN  IF ~IsNumber(obs.radius) THEN [raised |-> TRUE, ev |-> ev]
        ELSE along(compute_tangents_circle(obs.center, obs.radius.value,
                                           ev.position))

\* The line_of_sight test of Evader.move.
line_of_sight(ev, pursuer_position, obs) ==
    ~does_line_intersect_circle(ev.position, pursuer_position,
                                obs.center, obs.radius.value)

\* The branch Evader.move takes (evader.py:53-63); none when the test
\* itself raises: with a radius that is not a number,
\* `distance > circle_radius` (utility.py:105) raises TypeError.
evader_branch(ev, pursuer_position, obs) ==
    IF ~IsNumber(obs.radius) THEN "none"
    ELSE IF line_of_sight(ev, pursuer_position, obs)
    THEN "opposite" ELSE "tangent"

\* Evader.move with the two branches exchanged.
Evader_move_exchanged(ev, pursuer_position, obs) ==
    LET go(branch) ==
            IF branch = "none" THEN [raised |-> TRUE, ev |-> ev]
            ELSE IF branch = "opposite"
            THEN move_along_tangent(ev, pursuer_position, obs)
            ELSE move_opposite_direction(ev, pursuer_position)
    IN  go(evader_branch(ev, pursuer_position, obs))

\* Evader.move(pursuer_position).
Evader_move(ev, pursuer_position, obs) ==
    LET go(branch) ==
            IF branch = "none" THEN [raised |-> TRUE, ev |-> ev]
            ELSE IF branch = "opposite"
            THEN move_opposite_direction(ev, pursuer_position)
            ELSE move_along_tangent(ev, pursuer_position, obs)
    IN  go(evader_branch(ev, pursuer_position, obs))

\* cos and sin of d4/10000 rad in 1/10000, by the Taylor series: term is
\* d^k / k!, added to cos (k even) or sin (k odd) with the sign of i^k.
RECURSIVE Taylor(_, _, _, _, _)
Taylor(d4, k, term, c, s) ==
    IF k > 14 \/ term = 0 THEN <<c, s>>
    ELSE Taylor(d4, k + 1, RoundDiv(term * d4, (k + 1) * 10000),
                IF k % 4 = 0 THEN c + term
                ELSE IF k % 4 = 2 THEN c - term ELSE c,
                IF k % 4 = 1 THEN s + term
                ELSE IF k % 4 = 3 THEN s - term ELSE s)

CosSin4(d4) == Taylor(d4, 0, 10000, 0, 0)

\* The "on the circle edge" step of move_shortest_path (pursuer.py:75-78):
\* center + radius * (cos, sin)(atan2(dy, dx) + speed / radius), where
\* (cos, sin)(atan2(dy, dx)) = (dx, dy) / |(dx, dy)|, and (1, 0) at the
\* centre itself (atan2(0, 0) = 0).
edge_step(center, radius, position, speed) ==
    LET turn(dx, dy, cs, d10) ==
            IF d10 = 0
            THEN <<center[1] + MulDiv(radius, cs[1], 10000),
                   center[2] + MulDiv(radius, cs[2], 10000)>>
            ELSE <<center[1] + MulDiv(radius * 10, dx * cs[1] - dy * cs[2], d10 * 10000),
                   center[2] + MulDiv(radius * 10, dy * cs[1] + dx * cs[2], d10 * 10000)>>
        diff(dx, dy) ==
            turn(dx, dy, CosSin4(RoundDiv(speed * 10000, radius)), Norm10(dx, dy))
    IN  diff(position[1] - center[1], position[2] - center[2])

\* distance_to_obstacle > 1e-6 (pursuer.py:65-67).  Between two points of the
\* fixed-point grid 1e-6 is below the resolution: a grid point with
\* d^2 >= r^2 + 1 is more than 1e-6 outside, so the test is d^2 > r^2.
not_on_edge(center, radius, position) ==
    (position[1] - center[1]) * (position[1] - center[1])
    + (position[2] - center[2]) * (position[2] - center[2]) > radius * radius

\* The branch Pursuer.move_shortest_path takes (pursuer.py:58, 67, 73).
pursuer_branch(pu, evader_position, obs) ==
    IF ~does_line_intersect_circle(pu.position, evader_position,
                                   obs.center, obs.radius.value)
    THEN "direct"
    ELSE IF not_on_edge(obs.center, obs.radius.value, pu.position)
    THEN "tangent" ELSE "edge"

\* new_position of Pursuer.move_shortest_path (pursuer.py:58-78).
pursuer_new_position(pu, evader_position, obs) ==
    LET new(branch) ==
            IF branch = "direct"
            THEN UnitStep(pu.position, Diff(evader_position, pu.position), pu.speed)
            ELSE IF branch = "tangent"
            THEN UnitStep(pu.position, Diff(pu.tangent_points[2], pu.position),
                          pu.speed)
            ELSE edge_step(obs.center, obs.radius.value, pu.position, pu.speed)
    IN  new(pursuer_branch(pu, evader_position, obs))

\* The tangent recomputation that ends move_shortest_path (pursuer.py:84-87):
\* when compute_tangents_circle raises, the stored pair keeps its old value.
recompute_tangents(pu, obs) ==
    LET store(tangents) ==
            IF tangents.raised THEN [raised |-> TRUE, pu |-> pu]
            ELSE [raised |-> FALSE,
                  pu |-> [pu EXCEPT !.tangent_points = tangents.points,
                                    !.tangent_lines = tangents.lines]]
    IN  store(compute_tangents_circle(obs.center, obs.radius.value, pu.position))

\* move_shortest_path with the tangents recomputed before the position is
\* written, so that they belong to the position the step left.
move_shortest_path_tangents_first(pu, evader_position, obs) ==
    LET moved(new_position, r) ==
            [raised |-> r.raised,
             pu |-> [r.pu EXCEPT !.position = new_position,
                                 !.trajectory = Append(@, new_position)]]
    IN  moved(pursuer_new_position(pu, evader_position, obs),
              recompute_tangents(pu, obs))

\* Pursuer.move_shortest_path(evader_position): position and trajectory are
\* written before the tangents are recomputed.
move_shortest_path(pu, evader_position, obs) ==
    LET moved(new_position) ==
            recompute_tangents([pu EXCEPT !.position = new_position,
                                          !.trajectory = Append(@, new_position)],
                               obs)
    IN  moved(pursuer_new_position(pu, evader_position, obs))

\* The sampling steps of the grid: 0.2 in GameBoard.__init__, 0.1 in
\* compute_isocrones.
InitStep == Scale \div 5

BuildStep == Scale \div 10

\* len(np.arange(-board_size, board_size + step, step)): the float length
\* ceil((2*board_size + step) / step) is 2*board_size/step + 1 for the board
\* sizes used here.
arange_len(board_size, step) == ((2 * board_size) \div step) + 1

\* The i-th sample point (i from 1) of the nested x, y loops over
\* np.arange(-board_size, board_size + step, step), x outermost.  The float
\* keys are named by the fixed-point values they approximate.
KeyAt(i, board_size, step) ==
    LET n == arange_len(board_size, step)
    IN  <<-board_size + ((i - 1) \div n) * step,
          -board_size + ((i - 1) % n) * step>>

\* The place of sample point k in that loop order.
IndexOf(k, board_size, step) ==
    ((k[1] + board_size) \div step) * arange_len(board_size, step)
    + ((k[2] + board_size) \div step) + 1

\* The sample points of the whole grid.
GridKeys(board_size, step) ==
    LET n == arange_len(board_size, step)
    IN  {<<-board_size + a * step, -board_size + b * step>> :
            a \in 0..n - 1, b \in 0..n - 1}

\* self.grid of GameBoard.__init__ (gameboard.py:36-37).
InitialGrid(board_size) ==
    [k \in GridKeys(board_size, InitStep) |-> <<0, 0, 0>>]

\* A time difference (a product of two lengths) from a length.
AsProduct(length) == length * Scale

\* The default tolarance 0.004 of compute_isocrones, as a product of lengths.
DefaultTolerance == (4 * Scale * Scale) \div 1000

\* The loop body with the tolerance test applied to every stored triple, the
\* sentinel's included.
Cell_testing_sentinel(k, gb, obs, pu, ev, tolarance) ==
    LET store(pd, ed, td) ==
            [raised |-> FALSE,
             iso |-> td # NaN /\ Abs(td) <= tolarance,
             value |-> <<pd, ed, td>>]
        outside(pp, ep) ==
            IF pp.raised \/ ep.raised
            THEN [raised |-> TRUE, iso |-> FALSE, value |-> <<0, 0, 0>>]
            ELSE store(pp.length, ep.length,
                       IF pp.length = NaN \/ ep.length = NaN THEN NaN
                       ELSE pp.length * ev.speed - ep.length * pu.speed)
    IN  IF ~InsideOrOn(k, obs.center, obs.radius.value)
        THEN outside(shortest_path_with_circle(obs.center, obs.radius.value, k, pu.position),
                     shortest_path_with_circle(obs.center, obs.radius.value, k, ev.position))
        ELSE store(0, 0, AsProduct(gb.board_size))

\* The loop body without the in-obstacle branch: every sample point goes to
\* shortest_path_with_circle.
Cell_without_sentinel(k, gb, obs, pu, ev, tolarance) ==
    LET store(pd, ed, td) ==
            [raised |-> FALSE,
             iso |-> td # NaN /\ Abs(td) <= tolarance,
             value |-> <<pd, ed, td>>]
        outside(pp, ep) ==
            IF pp.raised \/ ep.raised
            THEN [raised |-> TRUE, iso |-> FALSE, value |-> <<0, 0, 0>>]
            ELSE store(pp.length, ep.length,
                       IF pp.length = NaN \/ ep.length = NaN THEN NaN
                       ELSE pp.length * ev.speed - ep.length * pu.speed)
    IN  outside(shortest_path_with_circle(obs.center, obs.radius.value, k, pu.position),
                shortest_path_with_circle(obs.center, obs.radius.value, k, ev.position))

\* One iteration of the loop body of compute_isocrones (gameboard.py:74-88)
\* at sample point k: whether shortest_path_with_circle raised, the triple
\* stored in the grid, and whether k is appended to the isochrones.
Cell(k, gb, obs, pu, ev, tolarance) ==
    LET store(pd, ed, td) ==
            [raised |-> FALSE,
             iso |-> td # NaN /\ Abs(td) <= tolarance,
             value |-> <<pd, ed, td>>]
        outside(pp, ep) ==
            IF pp.raised \/ ep.raised
            THEN [raised |-> TRUE, iso |-> FALSE, value |-> <<0, 0, 0>>]
            ELSE store(pp.length, ep.length,
                       IF pp.length = NaN \/ ep.length = NaN THEN NaN
                       ELSE pp.length * ev.speed - ep.length * pu.speed)
    IN  IF ~InsideOrOn(k, obs.center, obs.radius.value)
        THEN outside(shortest_path_with_circle(obs.center, obs.radius.value, k, pu.position),
                     shortest_path_with_circle(obs.center, obs.radius.value, k, ev.position))
        ELSE [raised |-> FALSE, iso |-> FALSE,
              value |-> <<0, 0, AsProduct(gb.board_size)>>]

\* The number of loop iterations completed before one raises: cells[i] is
\* the outcome of the i-th iteration.
Completed(cells) ==
    LET before(bad) ==
            IF bad = {} THEN Len(cells)
            ELSE (CHOOSE i \in bad : \A j \in bad : i <= j) - 1
    IN  before({i \in 1..Len(cells) : cells[i].raised})

\* The sample points, in loop order, that the completed iterations appended.
Appended(cells, done, board_size) ==
    LET picked(sel) == [j \in 1..Len(sel) |-> KeyAt(sel[j], board_size, BuildStep)]
    IN  picked(SelectSeq([i \in 1..done |-> i], LAMBDA i : cells[i].iso))

\* The grid after the first `done` iterations wrote their triples:
\* self.grid[(x, y)] = ... adds or overwrites a key.
GridWritten(g, cells, done, board_size) ==
    [k \in (DOMAIN g) \cup {KeyAt(i, board_size, BuildStep) : i \in 1..done} |->
        IF /\ (k[1] + board_size) % BuildStep = 0
           /\ (k[2] + board_size) % BuildStep = 0
           /\ IndexOf(k, board_size, BuildStep) <= done
        THEN cells[IndexOf(k, board_size, BuildStep)].value
        ELSE g[k]]

\* The state the loop of compute_isocrones leaves, a ValueError ending it
\* where it is raised.
BuildResult(g, iso, cells, done, board_size) ==
    [raised |-> done < Len(cells),
     grid |-> GridWritten(g, cells, done, board_size),
     isocrones |-> iso \o Appended(cells, done, board_size)]

BuildLoop(g, iso, cells, board_size) ==
    BuildResult(g, iso, cells, Completed(cells), board_size)

\* GameBoard.compute_isocrones(tolarance) on the grid g and the list iso:
\* the loop runs over the sample points in order, overwrites grid entries and
\* appends to self.isocrones, which it never empties.
compute_isocrones(g, iso, gb, obs, pu, ev, tolarance) ==
    LET n == arange_len(gb.board_size, BuildStep)
    IN  BuildLoop(g, iso,
                  [i \in 1..n * n |->
                      Cell(KeyAt(i, gb.board_size, BuildStep),
                           gb, obs, pu, ev, tolarance)] \o <<>>,
                  gb.board_size)

(***************************************************************************)
(* Construction.  A scenario gives the constructor arguments in fixed-     *)
(* point steps: Obstacle(center, shape, radius), Evader(e_pos, e_speed,    *)
(* board_size, obstacle) or, with e_obstacle FALSE, Evader(e_pos, e_speed, *)
(* board_size), Pursuer(p_pos, p_speed, board_size, obstacle) and, unless  *)
(* module is "none", GameBoard(pursuer, evader, obstacle, board_size,      *)
(* compute) of lib/<module>.py.                                            *)
(***************************************************************************)
Scenario(board_size, center, shape, radius, e_pos, e_speed, e_obstacle, p_pos, p_speed, module, compute) ==
    [board_size |-> board_size, center |-> center, shape |-> shape,
     radius |-> radius, e_pos |-> e_pos, e_speed |-> e_speed,
     e_obstacle |-> e_obstacle, p_pos |-> p_pos, p_speed |-> p_speed,
     module |-> module, compute |-> compute]

Scenarios ==
    {
      \* spec.md section 8: evader (0,10), pursuer (0,-10), radius 5 at the origin
      Scenario(1500, <<0, 0>>, "circle", 500, <<0, 1000>>, 50, TRUE,
               <<0, -1000>>, 100, "none", FALSE),
      \* the same, the evader constructed without an obstacle
      Scenario(1500, <<0, 0>>, "circle", 500, <<0, 1000>>, 50, FALSE,
               <<0, -1000>>, 100, "none", FALSE),
      \* the same, the obstacle a square
      Scenario(1500, <<0, 0>>, "square", 500, <<0, 1000>>, 50, TRUE,
               <<0, -1000>>, 100, "none", FALSE),
      \* a 3-4-5 triangle: the pursuer's tangent point (1.8, 2.4) is two steps away
      Scenario(600, <<0, 0>>, "circle", 300, <<-500, 0>>, 100, TRUE,
               <<500, 0>>, 200, "none", FALSE),
      \* the evader on the board's edge, the pursuer one step from it
      Scenario(200, <<-100, 0>>, "circle", 100, <<200, 0>>, 50, TRUE,
               <<100, 0>>, 100, "none", FALSE),
      \* the same, the pursuer's step longer than its distance to the evader
      Scenario(200, <<-100, 0>>, "circle", 100, <<200, 0>>, 50, TRUE,
               <<100, 0>>, 150, "none", FALSE),
      \* the evader between the pursuer and the obstacle
      Scenario(300, <<0, 0>>, "circle", 100, <<0, 150>>, 100, TRUE,
               <<0, 300>>, 50, "none", FALSE),
      \* the same, the pursuer's step longer than its distance to the obstacle
      Scenario(300, <<0, 0>>, "circle", 100, <<0, 150>>, 100, TRUE,
               <<0, 300>>, 250, "none", FALSE),
      \* boards of gameboard.py and tempCodeRunnerFile.py, half-extent 0.5; no
      \* sample point lies at distance exactly 0.25 from the centre
      Scenario(50, <<0, 0>>, "circle", 25, <<-40, 0>>, 10, TRUE,
               <<40, 0>>, 20, "gameboard", TRUE),
      \* the evader one step from the obstacle, the pursuer one step from it
      Scenario(50, <<0, 0>>, "circle", 25, <<0, 30>>, 10, TRUE,
               <<0, 50>>, 20, "gameboard", FALSE),
      Scenario(50, <<0, 0>>, "circle", 25, <<-40, 0>>, 10, TRUE,
               <<40, 0>>, 20, "tempCodeRunnerFile", FALSE)
    }

\* Obstacle.__init__.
NewObstacle(center, shape, radius) ==
    [center |-> center, shape |-> shape, radius |-> radius]

\* The default of Evader.__init__'s obstacle parameter (evader.py:12),
\* Obstacle([0, 0], 5, "circle", "green"): Obstacle's parameters are
\* (center, shape, radius, color), so 5 is its shape and "circle" its radius.
DefaultEvaderObstacle == NewObstacle(<<0, 0>>, Number(5 * Scale), Str("circle"))

\* Evader.__init__.
NewEvader(position, speed, board_size, obs) ==
    [position |-> position, speed |-> speed, board_size |-> board_size,
     trajectory |-> <<position>>, obstacle |-> obs]

\* Pursuer.__init__: the tangents are computed from the initial position;
\* raised when that position is inside or on the obstacle.
NewPursuer(position, speed, board_size, obs) ==
    recompute_tangents([position |-> position, speed |-> speed,
                        board_size |-> board_size,
                        trajectory |-> <<position>>, obstacle |-> obs,
                        tangent_points |-> <<>>, tangent_lines |-> <<>>],
                       obs)

\* The tolerances compute_isocrones is called with: its default 0.004, and
\* 1.0, which is not below the board half-extent of the board scenarios.
Tolerances == {DefaultTolerance, Scale * Scale}

\* GameBoard.__init__ (gameboard.py:30-42): the zero grid on the 0.2 lattice,
\* an empty isochrone list, and with compute_isocrones=True one build with
\* the default tolerance.  No board: no grid.
BoardBuilt(b) ==
    /\ ~b.raised
    /\ grid = b.grid
    /\ isocrones = b.isocrones
    /\ last = [op |-> "GameBoard.compute_isocrones", raised |-> FALSE,
               branch |-> "none", tolarance |-> DefaultTolerance]

Constructed(sc, obs, ev, np, gb) ==
    /\ ~np.raised
    /\ obstacle = obs
    /\ evader = ev
    /\ pursuer = np.pu
    /\ gameboard = gb
    /\ builds = 0
    /\ IF ~gb.exists
       THEN /\ grid = <<>>
            /\ isocrones = <<>>
            /\ last = [op |-> "none", raised |-> FALSE, branch |-> "none"]
       ELSE IF ~sc.compute
       THEN /\ grid = InitialGrid(gb.board_size)
            /\ isocrones = <<>>
            /\ last = [op |-> "GameBoard.__init__", raised |-> FALSE,
                       branch |-> "none"]
       ELSE BoardBuilt(compute_isocrones(InitialGrid(gb.board_size), <<>>,
                                         gb, obs, np.pu, ev, DefaultTolerance))

\* The obstacle of a scenario.
ScenarioObstacle(sc) == NewObstacle(sc.center, Str(sc.shape), Number(sc.radius))

Init ==
    \E sc \in Scenarios :
        Constructed(sc,
                    ScenarioObstacle(sc),
                    NewEvader(sc.e_pos, sc.e_speed, sc.board_size,
                              IF sc.e_obstacle THEN ScenarioObstacle(sc)
                              ELSE DefaultEvaderObstacle),
                    NewPursuer(sc.p_pos, sc.p_speed, sc.board_size,
                               ScenarioObstacle(sc)),
                    [exists |-> sc.module # "none", module |-> sc.module,
                     board_size |-> sc.board_size])

\* The cap on one agent's steps.
StepsLeft(agent) ==
    Len(agent.trajectory) <= (IF gameboard.exists THEN MaxBoardSteps ELSE MaxSteps)

\* The evader's call with the direction computed in place in the array it
\* was passed, the pursuer's own position: the pursuer is left holding the
\* difference evader minus pursuer.
EvaderCalled_in_place(op, r, branch) ==
    /\ evader' = r.ev
    /\ pursuer' = [pursuer EXCEPT
                      !.position = Diff(evader.position, pursuer.position)]
    /\ last' = [op |-> op, raised |-> r.raised, branch |-> branch]
    /\ UNCHANGED <<obstacle, gameboard, grid, isocrones, builds>>

\* The evader after a call of one of its methods with outcome r.
EvaderCalled(op, r, branch) ==
    /\ evader' = r.ev
    /\ last' = [op |-> op, raised |-> r.raised, branch |-> branch]
    /\ UNCHANGED <<obstacle, pursuer, gameboard, grid, isocrones, builds>>

\* evader.move(pursuer.position)
EvaderMove ==
    /\ StepsLeft(evader)
    /\ EvaderCalled("Evader.move",
                    Evader_move(evader, pursuer.position, evader.obstacle),
                    evader_branch(evader, pursuer.position, evader.obstacle))

\* evader.move_opposite_direction(pursuer.position)
EvaderMoveOppositeDirection ==
    /\ StepsLeft(evader)
    /\ EvaderCalled("Evader.move_opposite_direction",
                    move_opposite_direction(evader, pursuer.position),
                    "opposite")

\* evader.move_along_tangent(pursuer.position)
EvaderMoveAlongTangent ==
    /\ StepsLeft(evader)
    /\ EvaderCalled("Evader.move_along_tangent",
                    move_along_tangent(evader, pursuer.position, evader.obstacle),
                    "tangent")

\* The pursuer after a call of move_shortest_path with outcome r.
PursuerCalled(r, branch) ==
    /\ pursuer' = r.pu
    /\ last' = [op |-> "Pursuer.move_shortest_path", raised |-> r.raised,
                branch |-> branch]
    /\ UNCHANGED <<obstacle, evader, gameboard, grid, isocrones, builds>>

\* pursuer.move_shortest_path(evader.position)
PursuerMoveShortestPath ==
    /\ StepsLeft(pursuer)
    /\ PursuerCalled(move_shortest_path(pursuer, evader.position,
                                        pursuer.obstacle),
                     pursuer_branch(pursuer, evader.position, pursuer.obstacle))

\* GameBoard.update() of gameboard.py: the two move calls are commented out
\* and the body is `pass`.
update_gameboard(pu, ev) ==
    [raised |-> FALSE, pu |-> pu, ev |-> ev]

\* GameBoard.update() of tempCodeRunnerFile.py: the pursuer's
\* move_shortest_path, then the evader's move_opposite_direction from the
\* pursuer's new position; a raise of the first skips the second.
update_tempCodeRunnerFile(pu, ev) ==
    LET then(p) ==
            IF p.raised THEN [raised |-> TRUE, pu |-> p.pu, ev |-> ev]
            ELSE [raised |-> FALSE, pu |-> p.pu,
                  ev |-> move_opposite_direction(ev, p.pu.position).ev]
    IN  then(move_shortest_path(pu, ev.position, pu.obstacle))

\* GameBoard.update() of the class the board was made from.
update(gb, pu, ev) ==
    IF gb.module = "gameboard" THEN update_gameboard(pu, ev)
    ELSE update_tempCodeRunnerFile(pu, ev)

\* The agents after a call of update with outcome r.
Updated(r) ==
    /\ pursuer' = r.pu
    /\ evader' = r.ev
    /\ last' = [op |-> "GameBoard.update", raised |-> r.raised, branch |-> "none"]
    /\ UNCHANGED <<obstacle, gameboard, grid, isocrones, builds>>

\* game_board.update()
GameBoardUpdate ==
    /\ gameboard.exists
    /\ StepsLeft(pursuer)
    /\ StepsLeft(evader)
    /\ Updated(update(gameboard, pursuer, evader))

\* The board after a call of compute_isocrones with outcome r.
Computed(r, tolarance) ==
    /\ grid' = r.grid
    /\ isocrones' = r.isocrones
    /\ last' = [op |-> "GameBoard.compute_isocrones", raised |-> r.raised,
                branch |-> "none", tolarance |-> tolarance]
    /\ builds' = builds + 1
    /\ UNCHANGED <<obstacle, evader, pursuer, gameboard>>

\* game_board.compute_isocrones(tolarance)
GameBoardComputeIsocrones ==
    /\ gameboard.exists
    /\ builds < MaxBuilds
    /\ \E tolarance \in Tolerances :
        Computed(compute_isocrones(grid, isocrones, gameboard, obstacle,
                                   pursuer, evader, tolarance),
                 tolarance)

Next ==
    \/ EvaderMove
    \/ EvaderMoveOppositeDirection
    \/ EvaderMoveAlongTangent
    \/ PursuerMoveShortestPath
    \/ GameBoardUpdate
    \/ GameBoardComputeIsocrones

Spec == Init /\ [][Next]_vars

(***************************************************************************)
(* The geometry kernel called on its own: shortest_path_with_circle of      *)
(* utility.py applied to two points and a circle, with no agent and no      *)
(* board.  The call and its result are held in `last`; the agent and board  *)
(* variables are empty.                                                     *)
(***************************************************************************)
\* The circle of the kernel calls: radius 5 at the origin.
KernelCircle == NewObstacle(<<0, 0>>, Str("circle"), Number(5 * Scale))

\* The points the kernel is called with: outside the circle (on both axes,
\* on the line y = 5 that touches the circle, near and far), on the circle,
\* and inside it.
KernelPoints ==
    { <<10 * Scale, 0>>, <<-10 * Scale, 0>>, <<0, 10 * Scale>>,
      <<-10 * Scale, 5 * Scale>>, <<10 * Scale, 5 * Scale>>,
      <<6 * Scale, 0>>, <<-6 * Scale, 0>>, <<8 * Scale, 6 * Scale>>,
      <<-10 * Scale, -10 * Scale>>, <<3 * Scale, -9 * Scale>>,
      <<5 * Scale, 0>>, <<3 * Scale, 4 * Scale>>, <<-4 * Scale, -3 * Scale>>,
      <<0, 0>>, <<Scale, 0>>, <<-4 * Scale, 0>> }

KernelInit ==
    /\ obstacle = KernelCircle
    /\ evader = <<>>
    /\ pursuer = <<>>
    /\ gameboard = [exists |-> FALSE, module |-> "none", board_size |-> 0]
    /\ grid = <<>>
    /\ isocrones = <<>>
    /\ builds = 0
    /\ \E point1 \in KernelPoints, point2 \in KernelPoints :
          last = [op |-> "none", raised |-> FALSE, branch |-> "none",
                  point1 |-> point1, point2 |-> point2]

\* The state after a call of shortest_path_with_circle with outcome r.
KernelCalled(r) ==
    /\ last' = [op |-> "shortest_path_with_circle", raised |-> r.raised,
                branch |-> "none", point1 |-> last.point1,
                point2 |-> last.point2, length |-> r.length, path |-> r.path]
    /\ UNCHANGED <<obstacle, evader, pursuer, gameboard, grid, isocrones, builds>>

\* shortest_path_with_circle(circle_center, circle_radius, point1, point2)
KernelShortestPath ==
    /\ last.op = "none"
    /\ KernelCalled(shortest_path_with_circle(obstacle.center, obstacle.radius.value,
                                              last.point1, last.point2))

KernelNext == KernelShortestPath

KernelSpec == KernelInit /\ [][KernelNext]_vars

(***************************************************************************)
(* Properties.                                                             *)
(***************************************************************************)
Range(seq) == {seq[i] : i \in 1..Len(seq)}

EvaderStepOps ==
    {"Evader.move", "Evader.move_opposite_direction", "Evader.move_along_tangent"}

\* The step to the next state is a call of GameBoard.update of
\* tempCodeRunnerFile.py, which steps both agents.
BoardStepCalled ==
    last'.op = "GameBoard.update" /\ gameboard.module = "tempCodeRunnerFile"

\* The step to the next state is a completed step of the evader.
EvaderStepCompleted ==
    /\ ~last'.raised
    /\ (last'.op \in EvaderStepOps \/ BoardStepCalled)

\* The step to the next state is a call of the pursuer's step; a completed one.
PursuerStepCalled ==
    last'.op = "Pursuer.move_shortest_path" \/ BoardStepCalled

PursuerStepCompleted == PursuerStepCalled /\ ~last'.raised

\* The state is the return of an isochrone build.
BuildReturned == last.op = "GameBoard.compute_isocrones" /\ ~last.raised

\* C1: a trajectory starts as the one-entry list of the initial position; its
\* last entry is always the agent's position; a completed step of an agent
\* appends exactly one entry, the agent's new position, and keeps the earlier
\* entries; no other operation changes a trajectory (the pursuer's step that
\* raises has appended too: it is not a completed step).  So after n completed
\* steps the trajectory has n + 1 entries and begins with the initial position.
C1_TrajectoryGrowsByOnePerStep ==
    /\ evader.trajectory = <<evader.position>>
    /\ pursuer.trajectory = <<pursuer.position>>
    /\ [](/\ evader.trajectory[Len(evader.trajectory)] = evader.position
          /\ pursuer.trajectory[Len(pursuer.trajectory)] = pursuer.position)
    /\ [][/\ IF EvaderStepCompleted
             THEN evader'.trajectory = Append(evader.trajectory, evader'.position)
             ELSE evader'.trajectory = evader.trajectory
          /\ IF PursuerStepCalled
             THEN pursuer'.trajectory = Append(pursuer.trajectory, pursuer'.position)
             ELSE pursuer'.trajectory = pursuer.trajectory]_vars

\* C1 witness: both agents have completed two steps, the evader one of them
\* rejected at the board's edge, and have moved.
C1_Witness ==
    /\ Len(evader.trajectory) = 3
    /\ Len(pursuer.trajectory) = 3
    /\ evader.trajectory[1] = evader.trajectory[2]
    /\ evader.trajectory[3] # evader.trajectory[1]
    /\ pursuer.trajectory[3] # pursuer.trajectory[1]
    /\ ~last.raised

\* C2: an agent that starts inside the board never has a coordinate whose
\* absolute value is above board_size.
C2_AgentsStayWithinBoard ==
    /\ ~IsNaNPoint(evader.position) =>
          /\ Abs(evader.position[1]) <= evader.board_size
          /\ Abs(evader.position[2]) <= evader.board_size
    /\ ~IsNaNPoint(pursuer.position) =>
          /\ Abs(pursuer.position[1]) <= pursuer.board_size
          /\ Abs(pursuer.position[2]) <= pursuer.board_size

\* C3: a call of GameBoard.update that returns has grown each agent's
\* trajectory by exactly one entry.
C3_UpdateStepsBothAgents ==
    [][(last'.op = "GameBoard.update" /\ ~last'.raised) =>
          /\ Len(pursuer'.trajectory) = Len(pursuer.trajectory) + 1
          /\ Len(evader'.trajectory) = Len(evader.trajectory) + 1]_vars

\* C4: Evader.move is move_opposite_direction (the step away from the
\* pursuer, along evader position minus pursuer position) exactly when the
\* segment evader-pursuer does not intersect the evader's obstacle, and
\* move_along_tangent exactly when it does; with the evader at (0, 10), the
\* pursuer at (0, -10) and radius 5 at the origin the segment intersects.
\* Where the intersection test itself cannot be made (the obstacle's radius
\* is not a number) the call raises and takes neither branch.
C4_EvaderMoveDispatch ==
    /\ []((/\ evader.position = <<0, 10 * Scale>>
           /\ pursuer.position = <<0, -10 * Scale>>
           /\ obstacle.center = <<0, 0>>
           /\ obstacle.radius.value = 5 * Scale)
          => does_line_intersect_circle(evader.position, pursuer.position,
                                        obstacle.center, obstacle.radius.value))
    /\ [][last'.op = "Evader.move" =>
            IF ~IsNumber(evader.obstacle.radius)
            THEN /\ last'.branch = "none"
                 /\ last'.raised
                 /\ evader' = evader
            ELSE IF does_line_intersect_circle(evader.position, pursuer.position,
                                               evader.obstacle.center,
                                               evader.obstacle.radius.value)
            THEN /\ last'.branch = "tangent"
                 /\ [raised |-> last'.raised, ev |-> evader']
                      = move_along_tangent(evader, pursuer.position,
                                           evader.obstacle)
            ELSE /\ last'.branch = "opposite"
                 /\ ~last'.raised
                 /\ evader' = EvaderLands(evader,
                                  UnitStep(evader.position,
                                           Diff(evader.position, pursuer.position),
                                           evader.speed)).ev]_vars

\* C4 witness: Evader.move from (0, 10) with the pursuer at (0, -10) behind the
\* radius-5 obstacle has stepped by the tangent branch.
C4_Witness ==
    /\ last.op = "Evader.move"
    /\ last.branch = "tangent"
    /\ ~last.raised
    /\ evader.obstacle = obstacle
    /\ obstacle.radius.value = 5 * Scale
    /\ pursuer.position = <<0, -10 * Scale>>
    /\ Len(evader.trajectory) = 2
    /\ evader.trajectory[1] = <<0, 10 * Scale>>
    /\ evader.position # <<0, 10 * Scale>>

\* The length of the step from p to q is speed, to the rounding of the
\* fixed-point grid.
StepOfLength(p, q, speed) ==
    /\ ~IsNaNPoint(q)
    /\ Abs(Dist(p, q) - speed) <= 1

\* C5: move_shortest_path steps by three ordered cases: the segment to the
\* evader is clear: a step of length speed toward the evader; else, off the
\* circle: a step of length speed toward tangent_points[1]; else a turn on
\* the circle by speed/radius, ending at distance radius from the centre.
C5_PursuerThreeCases ==
    [][last'.op = "Pursuer.move_shortest_path" =>
          IF ~does_line_intersect_circle(pursuer.position, evader.position,
                                         obstacle.center, obstacle.radius.value)
          THEN /\ pursuer'.position = UnitStep(pursuer.position,
                                               Diff(evader.position, pursuer.position),
                                               pursuer.speed)
               /\ StepOfLength(pursuer.position, pursuer'.position, pursuer.speed)
          ELSE IF not_on_edge(obstacle.center, obstacle.radius.value, pursuer.position)
          THEN /\ pursuer'.position = UnitStep(pursuer.position,
                                               Diff(pursuer.tangent_points[2],
                                                    pursuer.position),
                                               pursuer.speed)
               /\ StepOfLength(pursuer.position, pursuer'.position, pursuer.speed)
          ELSE /\ pursuer'.position = edge_step(obstacle.center, obstacle.radius.value,
                                                pursuer.position, pursuer.speed)
               /\ Abs(Dist(obstacle.center, pursuer'.position) - obstacle.radius.value) <= 1]_vars

\* C6: whenever compute_tangents_circle is defined at the pursuer's position
\* (every state a completed step or the constructor leaves), the stored
\* tangent_points and tangent_lines are its result there.
C6_StoredTangentsAreCurrent ==
    LET tangents == compute_tangents_circle(obstacle.center, obstacle.radius.value,
                                            pursuer.position)
    IN  ~tangents.raised =>
            /\ pursuer.tangent_points = tangents.points
            /\ pursuer.tangent_lines = tangents.lines

\* C6 witness: the pursuer has completed two steps and its stored tangents are
\* those of where it stands, not those of where it started.
C6_Witness ==
    /\ last.op = "Pursuer.move_shortest_path"
    /\ ~last.raised
    /\ Len(pursuer.trajectory) = 3
    /\ pursuer.tangent_points
         = compute_tangents_circle(obstacle.center, obstacle.radius.value,
                                   pursuer.position).points
    /\ pursuer.tangent_points
         # compute_tangents_circle(obstacle.center, obstacle.radius.value,
                                   pursuer.trajectory[1]).points

\* The evader's step from its position to the next state's is the step of
\* move_along_tangent toward tangent point i of t: no other tangent point is
\* farther from the pursuer, the first is taken when both are equally far,
\* and the step is rejected at the board's edge or has length speed along the
\* direction from the position to the tangent point.
TangentStepToward(t, i) ==
    /\ Dist(t[i], pursuer.position) >= Dist(t[3 - i], pursuer.position)
    /\ Dist(t[i], pursuer.position) = Dist(t[3 - i], pursuer.position) => i = 1
    /\ IF WithinBoard(UnitStep(evader.position, Diff(t[i], evader.position),
                               evader.speed),
                      evader.board_size)
       THEN /\ evader'.position = UnitStep(evader.position,
                                           Diff(t[i], evader.position),
                                           evader.speed)
            /\ StepOfLength(evader.position, evader'.position, evader.speed)
       ELSE evader'.position = evader.position

\* C7: a step of move_along_tangent that returns goes from the evader's
\* position toward that one of the evader's two tangent points that is
\* farther from the pursuer (the first when they are equally far), and when
\* accepted has length speed.
C7_EvaderTangentStep ==
    [][(/\ ~last'.raised
        /\ \/ last'.op = "Evader.move_along_tangent"
           \/ last'.op = "Evader.move" /\ last'.branch = "tangent") =>
          \E i \in {1, 2} :
              TangentStepToward(
                  compute_tangents_circle(evader.obstacle.center,
                                          evader.obstacle.radius.value,
                                          evader.position).points, i)]_vars

\* C7 witness: move_along_tangent has stepped toward the second tangent point,
\* which was strictly farther from the pursuer than the first, by a step of
\* length speed that stops short of the tangent point.
C7_Witness ==
    /\ last.op = "Evader.move_along_tangent"
    /\ ~last.raised
    /\ Len(evader.trajectory) = 2
    /\ LET prev == evader.trajectory[1]
           t == compute_tangents_circle(evader.obstacle.center,
                                        evader.obstacle.radius.value,
                                        evader.trajectory[1]).points
       IN  /\ Dist(t[2], pursuer.position) > Dist(t[1], pursuer.position)
           /\ evader.position = UnitStep(prev, Diff(t[2], prev), evader.speed)
           /\ StepOfLength(prev, evader.position, evader.speed)
           /\ evader.position # t[2]

\* The sample points that qualify for the isochrone under the tolerance of the
\* build the state is the return of.
Qualifying ==
    {k \in GridKeys(gameboard.board_size, BuildStep) :
        /\ ~InsideOrOn(k, obstacle.center, obstacle.radius.value)
        /\ grid[k][3] # NaN
        /\ Abs(grid[k][3]) <= last.tolarance}

\* C8: when a build returns, the isochrone list holds exactly the sample
\* points outside the obstacle whose |time difference| is within the
\* tolerance of that build.
C8_IsochroneIsExactlyTheQualifyingPoints ==
    BuildReturned => Range(isocrones) = Qualifying

\* C9: a build that follows a build, with the same tolerance and nothing else
\* changed in between, leaves the grid and the isochrone list as they were.
C9_BuildIsIdempotent ==
    [][(/\ BuildReturned
        /\ last'.op = "GameBoard.compute_isocrones"
        /\ ~last'.raised
        /\ last'.tolarance = last.tolarance) =>
          /\ grid' = grid
          /\ isocrones' = isocrones]_vars

\* The triple the build stores for a sample point outside the obstacle, from
\* the two shortest paths pp (to the pursuer) and ep (to the evader).
StoredTriple(pp, ep) ==
    <<pp.length, ep.length,
      IF pp.length = NaN \/ ep.length = NaN THEN NaN
      ELSE pp.length * evader.speed - ep.length * pursuer.speed>>

\* C10: when a build returns, every sample point at distance at most radius
\* from the obstacle's centre holds (0, 0, board_size) and is not in the
\* isochrone list, whatever the tolerance; every other sample point holds
\* (pursuer distance, evader distance,
\*  pursuer distance * evader.speed - evader distance * pursuer.speed).
C10_SentinelNeverInIsochrone ==
    BuildReturned =>
        \A k \in GridKeys(gameboard.board_size, BuildStep) :
            IF InsideOrOn(k, obstacle.center, obstacle.radius.value)
            THEN /\ grid[k] = <<0, 0, AsProduct(gameboard.board_size)>>
                 /\ \A i \in 1..Len(isocrones) : isocrones[i] # k
            ELSE grid[k] = StoredTriple(
                     shortest_path_with_circle(obstacle.center, obstacle.radius.value,
                                               k, pursuer.position),
                     shortest_path_with_circle(obstacle.center, obstacle.radius.value,
                                               k, evader.position))

\* C10 witness: a build with a tolerance not below the board's half-extent
\* has returned; the obstacle's centre holds the sentinel, whose third entry
\* is within that tolerance, and is not in the isochrone list, which is not
\* empty.
C10_Witness ==
    /\ BuildReturned
    /\ last.tolarance >= AsProduct(gameboard.board_size)
    /\ grid[obstacle.center] = <<0, 0, AsProduct(gameboard.board_size)>>
    /\ Abs(grid[obstacle.center][3]) <= last.tolarance
    /\ obstacle.center \notin Range(isocrones)
    /\ isocrones # <<>>

\* p is a point strictly outside the obstacle.
StrictlyOutside(p, obs) ==
    ~IsNaNPoint(p) /\ ~InsideOrOn(p, obs.center, obs.radius.value)

\* C11: a build on a board whose half-extent is at least the obstacle's radius,
\* with both agents strictly outside the obstacle, returns normally: no
\* sample point makes a tangent or path computation raise, a sample point at
\* an agent's position included.
C11_BuildReturnsNormally ==
    (/\ gameboard.exists
     /\ last.op = "GameBoard.compute_isocrones"
     /\ gameboard.board_size >= obstacle.radius.value
     /\ StrictlyOutside(pursuer.position, obstacle)
     /\ StrictlyOutside(evader.position, obstacle))
    => ~last.raised

\* C11 witness: a build has returned with both agents strictly outside the
\* obstacle and the pursuer, after a step, standing on a sample point, whose
\* stored pursuer distance is 0.
C11_Witness ==
    /\ gameboard.exists
    /\ BuildReturned
    /\ gameboard.board_size >= obstacle.radius.value
    /\ StrictlyOutside(pursuer.position, obstacle)
    /\ StrictlyOutside(evader.position, obstacle)
    /\ pursuer.position \in GridKeys(gameboard.board_size, BuildStep)
    /\ grid[pursuer.position][1] = 0
    /\ Len(evader.trajectory) = 2
    /\ evader.position # evader.trajectory[1]

\* The kernel call was made with both points strictly outside the circle.
KernelCallOutside ==
    /\ last.op = "shortest_path_with_circle"
    /\ StrictlyOutside(last.point1, obstacle)
    /\ StrictlyOutside(last.point2, obstacle)

\* C12: for points A and B strictly outside the circle,
\* shortest_path_with_circle returns; when the segment A-B does not intersect
\* the circle the result is the path A, B and its length |A - B|; when it
\* does, the result is a path A, a tangent point of A, a tangent point of B,
\* B, whose length is not less than |A - B| and is greater than |A - B| when
\* the segment passes the centre nearer than half the radius, both beyond the
\* rounding of the grid (3 steps: the path's three terms are each rounded).
C12_ShortestPathAgainstStraightLine ==
    KernelCallOutside =>
        /\ ~last.raised
        /\ IF does_line_intersect_circle(last.point1, last.point2,
                                         obstacle.center, obstacle.radius.value)
           THEN /\ Len(last.path) = 4
                /\ last.path[1] = last.point1
                /\ last.path[4] = last.point2
                /\ last.path[2] \in Range(compute_tangents_circle(
                       obstacle.center, obstacle.radius.value, last.point1).points)
                /\ last.path[3] \in Range(compute_tangents_circle(
                       obstacle.center, obstacle.radius.value, last.point2).points)
                /\ last.length + 3 >= Dist(last.point1, last.point2)
                /\ does_line_intersect_circle(last.point1, last.point2,
                                              obstacle.center,
                                              obstacle.radius.value \div 2)
                   => last.length > Dist(last.point1, last.point2) + 3
           ELSE /\ last.path = <<last.point1, last.point2>>
                /\ last.length = Dist(last.point1, last.point2)

\* C12 witness: the path between (10, 0) and (-10, 0), on opposite sides of
\* the circle, goes by two tangent points and is longer than 20; its length
\* is 2 * sqrt(75) + 5 * pi / 3 = 22.56, to the fixed-point grid.
C12_Witness ==
    /\ KernelCallOutside
    /\ last.point1 = <<10 * Scale, 0>>
    /\ last.point2 = <<-10 * Scale, 0>>
    /\ Len(last.path) = 4
    /\ last.length > 20 * Scale
    /\ Abs(last.length - 2256) <= 2

\* C13: shortest_path_with_circle raises whenever one of its two points is
\* inside or on the circle, wherever the other point is.
C13_RaisesForAPointInsideOrOn ==
    (/\ last.op = "shortest_path_with_circle"
     /\ \/ InsideOrOn(last.point1, obstacle.center, obstacle.radius.value)
        \/ InsideOrOn(last.point2, obstacle.center, obstacle.radius.value))
    => last.raised

\* C14: every step leaves every obstacle as it was (the one the script made
\* and the one each agent holds: center, shape and radius); a call of one of
\* the evader's step methods leaves the pursuer unchanged (position, speed,
\* trajectory, tangents), a call of the pursuer's step leaves the evader
\* unchanged, and an isochrone build leaves both agents unchanged.
C14_StepsLeaveTheRestUnchanged ==
    [][/\ obstacle' = obstacle
       /\ evader'.obstacle = evader.obstacle
       /\ pursuer'.obstacle = pursuer.obstacle
       /\ evader'.speed = evader.speed
       /\ pursuer'.speed = pursuer.speed
       /\ last'.op \in EvaderStepOps => pursuer' = pursuer
       /\ last'.op = "Pursuer.move_shortest_path" => evader' = evader
       /\ last'.op = "GameBoard.compute_isocrones" =>
              /\ evader' = evader
              /\ pursuer' = pursuer]_vars

\* C14 witness: an isochrone build has returned on a board whose two agents
\* have each stepped and moved before it, next to an obstacle that is still
\* the one the board was made with.
C14_Witness ==
    /\ BuildReturned
    /\ builds = 1
    /\ Len(evader.trajectory) = 2
    /\ Len(pursuer.trajectory) = 2
    /\ evader.position # evader.trajectory[1]
    /\ pursuer.position # pursuer.trajectory[1]
    /\ obstacle = NewObstacle(<<0, 0>>, Str("circle"), Number(25))
    /\ evader.obstacle = obstacle
    /\ pursuer.obstacle = obstacle

\* The obstacle is one the geometry is defined for: its shape is the string
\* "circle".
IsCircle(obs) == obs.shape.type = "str" /\ obs.shape.value = "circle"

\* C15: no agent step that uses the obstacle and no isochrone build runs to
\* completion against an obstacle whose shape is not "circle": a call of
\* Evader.move, Evader.move_along_tangent, Pursuer.move_shortest_path or
\* compute_isocrones that has returned was made by an agent or a board whose
\* obstacle is a circle.
C15_NonCircleObstacleIsRejected ==
    ~last.raised =>
        /\ last.op \in {"Evader.move", "Evader.move_along_tangent"}
              => IsCircle(evader.obstacle)
        /\ last.op = "Pursuer.move_shortest_path" => IsCircle(pursuer.obstacle)
        /\ last.op = "GameBoard.compute_isocrones" => IsCircle(obstacle)

\* The evader was constructed without an obstacle argument: the obstacle it
\* holds is not the one the script made for the pursuer.
EvaderHoldsDefaultObstacle ==
    \/ evader.obstacle.shape.type # obstacle.shape.type
    \/ evader.obstacle.radius.type # obstacle.radius.type
    \/ evader.obstacle # obstacle

\* C16: an evader constructed without an obstacle argument holds an obstacle
\* at [0, 0] whose shape is "circle" and whose radius is the number 5, and a
\* call of Evader.move on it makes the line-of-sight test and takes one of
\* the two branches.
C16_DefaultObstacleIsACircleOfRadius5 ==
    EvaderHoldsDefaultObstacle =>
        /\ evader.obstacle.center = <<0, 0>>
        /\ IsCircle(evader.obstacle)
        /\ IsNumber(evader.obstacle.radius)
        /\ evader.obstacle.radius.value = 5 * Scale
        /\ last.op = "Evader.move" => last.branch \in {"opposite", "tangent"}

\* Both agents stand strictly outside the obstacle each of them holds, whose
\* radius is a number.
AgentsStrictlyOutside ==
    /\ IsNumber(evader.obstacle.radius)
    /\ StrictlyOutside(evader.position, evader.obstacle)
    /\ StrictlyOutside(pursuer.position, pursuer.obstacle)

\* C17: a call of Evader.move or Pursuer.move_shortest_path made with both
\* agents strictly outside the obstacle leaves both agents strictly outside
\* it; so from a start strictly outside, every sequence of these steps keeps
\* every agent position strictly outside.
C17_StepsStayOutsideTheObstacle ==
    [][(/\ last'.op \in {"Evader.move", "Pursuer.move_shortest_path"}
        /\ AgentsStrictlyOutside)
          => AgentsStrictlyOutside']_vars

\* C18: a call of Pursuer.move_shortest_path made from a position strictly
\* outside the obstacle returns normally, whichever branch it takes: the
\* tangent recomputation that ends it does not raise, and the stored tangents
\* are those of the new position.
C18_PursuerStepFromOutsideReturns ==
    [][(/\ last'.op = "Pursuer.move_shortest_path"
        /\ StrictlyOutside(pursuer.position, pursuer.obstacle))
          => /\ ~last'.raised
             /\ pursuer'.tangent_points
                  = compute_tangents_circle(pursuer.obstacle.center,
                                            pursuer.obstacle.radius.value,
                                            pursuer'.position).points]_vars

====
